---------------------------- MODULE Spec2Model ----------------------------
(***************************************************************************)
(* Model of the real-estate investment simulator: the calculation engine   *)
(* (src/utils.py) and the Streamlit script that drives it (src/main.py).   *)
(*                                                                         *)
(* The engine computes in Python numbers.  A Python int is exact and is    *)
(* modelled by a TLA+ integer.  A Python float is an IEEE-754 binary64     *)
(* value; it is modelled by a record [s, m, e] standing for                *)
(* (-1)^s * m * 2^e, where m is a natural number of exactly MantBits bits  *)
(* (or zero), held as a little-endian sequence of limbs in base 2^15.      *)
(* Every float operation computes the exact result and rounds it to        *)
(* nearest, ties to even, as the hardware does.  Exponent overflow and     *)
(* subnormals are not modelled: the values of the model stay far from      *)
(* both.  The sign of zero is not modelled (Python's == ignores it).       *)
(***************************************************************************)
EXTENDS Integers, Sequences, FiniteSets, TLC

(***************************************************************************)
(* Natural numbers of arbitrary size: little-endian limbs, no leading      *)
(* zero limb, zero is the empty sequence.                                  *)
(***************************************************************************)
LimbBits == 15
Base == 2^LimbBits
MantBits == 53

Limb(a, i) == IF i <= Len(a) THEN a[i] ELSE 0

RECURSIVE BNorm(_)
BNorm(a) ==
    IF a = <<>> THEN <<>>
    ELSE IF a[Len(a)] = 0 THEN BNorm(SubSeq(a, 1, Len(a) - 1))
    ELSE a

RECURSIVE BFromNat(_)
BFromNat(n) == IF n = 0 THEN <<>> ELSE <<n % Base>> \o BFromNat(n \div Base)

RECURSIVE BAddFrom(_, _, _, _)
BAddFrom(a, b, i, c) ==
    IF i > Len(a) /\ i > Len(b)
    THEN (IF c = 0 THEN <<>> ELSE <<c>>)
    ELSE <<(Limb(a, i) + Limb(b, i) + c) % Base>>
         \o BAddFrom(a, b, i + 1, (Limb(a, i) + Limb(b, i) + c) \div Base)

BAdd(a, b) == BAddFrom(a, b, 1, 0)

\* a - b for a >= b
RECURSIVE BSubFrom(_, _, _, _)
BSubFrom(a, b, i, c) ==
    IF i > Len(a) THEN <<>>
    ELSE <<(a[i] - Limb(b, i) - c + Base) % Base>>
         \o BSubFrom(a, b, i + 1, IF a[i] - Limb(b, i) - c < 0 THEN 1 ELSE 0)

BSub(a, b) == BNorm(BSubFrom(a, b, 1, 0))

\* -1, 0, 1 as a < b, a = b, a > b
RECURSIVE BCmpFrom(_, _, _)
BCmpFrom(a, b, i) ==
    IF i = 0 THEN 0
    ELSE IF a[i] < b[i] THEN -1
    ELSE IF a[i] > b[i] THEN 1
    ELSE BCmpFrom(a, b, i - 1)

BCmp(a, b) ==
    IF Len(a) < Len(b) THEN -1
    ELSE IF Len(a) > Len(b) THEN 1
    ELSE BCmpFrom(a, b, Len(a))

\* a * k for 0 <= k <= Base
RECURSIVE BMulSmallFrom(_, _, _, _)
BMulSmallFrom(a, k, i, c) ==
    IF i > Len(a)
    THEN (IF c = 0 THEN <<>> ELSE <<c>>)
    ELSE <<(a[i] * k + c) % Base>>
         \o BMulSmallFrom(a, k, i + 1, (a[i] * k + c) \div Base)

BMulSmall(a, k) == IF k = 0 THEN <<>> ELSE BMulSmallFrom(a, k, 1, 0)

Zeros(n) == [i \in 1..n |-> 0]

RECURSIVE BMulFrom(_, _, _)
BMulFrom(a, b, i) ==
    IF i > Len(b) THEN <<>>
    ELSE BAdd(IF b[i] = 0 THEN <<>> ELSE Zeros(i - 1) \o BMulSmall(a, b[i]),
              BMulFrom(a, b, i + 1))

BMul(a, b) == IF a = <<>> \/ b = <<>> THEN <<>> ELSE BMulFrom(a, b, 1)

\* a * 2^k
BShl(a, k) ==
    IF a = <<>> THEN <<>>
    ELSE Zeros(k \div LimbBits) \o BMulSmall(a, 2^(k % LimbBits))

\* a \div 2^k
BShrLimbs(a, r) ==
    BNorm([i \in 1..Len(a) |->
              (a[i] \div 2^r) + (Limb(a, i + 1) % 2^r) * 2^(LimbBits - r)])

BShr(a, k) ==
    IF k \div LimbBits >= Len(a) THEN <<>>
    ELSE BShrLimbs(SubSeq(a, (k \div LimbBits) + 1, Len(a)), k % LimbBits)

RECURSIVE NatBitLen(_)
NatBitLen(n) == IF n = 0 THEN 0 ELSE 1 + NatBitLen(n \div 2)

BBitLen(a) ==
    IF a = <<>> THEN 0 ELSE LimbBits * (Len(a) - 1) + NatBitLen(a[Len(a)])

BTestBit(a, i) == (Limb(a, (i \div LimbBits) + 1) \div 2^(i % LimbBits)) % 2 = 1

\* whether the k lowest bits of a are all zero
BLowZero(a, k) == BShl(BShr(a, k), k) = a

BOdd(a) == a # <<>> /\ a[1] % 2 = 1

\* quotient and remainder of (r * 2^k) by d, for r < 2 * d, bit by bit
\* (q is read at every step so that it is computed step by step)
RECURSIVE BDivBits(_, _, _, _)
BDivBits(r, d, q, k) ==
    IF Len(q) >= 0 /\ BCmp(r, d) >= 0
    THEN (IF k = 0 THEN <<BAdd(q, <<1>>), BSub(r, d)>>
          ELSE BDivBits(BMulSmall(BSub(r, d), 2), d,
                        BMulSmall(BAdd(q, <<1>>), 2), k - 1))
    ELSE (IF k = 0 THEN <<q, r>>
          ELSE BDivBits(BMulSmall(r, 2), d, BMulSmall(q, 2), k - 1))

(***************************************************************************)
(* Python floats.                                                          *)
(***************************************************************************)
FZero == [s |-> 0, m |-> <<>>, e |-> 0]

IsZero(x) == x.m = <<>>

\* q is MantBits or MantBits + 1 bits long: renormalise after the increment
FPack(s, q, e) ==
    IF BBitLen(q) > MantBits
    THEN [s |-> s, m |-> BShr(q, 1), e |-> e + 1]
    ELSE [s |-> s, m |-> q, e |-> e]

\* the float nearest to (-1)^s * (M + f) * 2^e, ties to even, where
\* f = 0 when sticky is FALSE and 0 < f < 1 when it is TRUE
FRoundCut(s, M, e, sticky, k) ==
    FPack(s,
          IF BTestBit(M, k - 1)
             /\ (sticky \/ ~BLowZero(M, k - 1) \/ BOdd(BShr(M, k)))
          THEN BAdd(BShr(M, k), <<1>>)
          ELSE BShr(M, k),
          e + k)

FRound(s, M, e, sticky) ==
    IF M = <<>> THEN FZero
    ELSE IF BBitLen(M) <= MantBits
    THEN [s |-> s, m |-> BShl(M, MantBits - BBitLen(M)),
          e |-> e - (MantBits - BBitLen(M))]
    ELSE FRoundCut(s, M, e, sticky, BBitLen(M) - MantBits)

Abs(n) == IF n < 0 THEN -n ELSE n

\* int -> float, exact below 2^53
FromInt(n) == FRound(IF n < 0 THEN 1 ELSE 0, BFromNat(Abs(n)), 0, FALSE)

FNeg(x) == IF IsZero(x) THEN x ELSE [x EXCEPT !.s = 1 - x.s]

MinOf(a, b) == IF a < b THEN a ELSE b

\* x + y on aligned significands ma, mb with common exponent e
FAddAligned(sa, ma, sb, mb, e) ==
    IF sa = sb THEN FRound(sa, BAdd(ma, mb), e, FALSE)
    ELSE IF BCmp(ma, mb) = 0 THEN FZero
    ELSE IF BCmp(ma, mb) > 0 THEN FRound(sa, BSub(ma, mb), e, FALSE)
    ELSE FRound(sb, BSub(mb, ma), e, FALSE)

FAdd(x, y) ==
    IF IsZero(x) THEN y
    ELSE IF IsZero(y) THEN x
    ELSE FAddAligned(x.s, BShl(x.m, x.e - MinOf(x.e, y.e)),
                     y.s, BShl(y.m, y.e - MinOf(x.e, y.e)),
                     MinOf(x.e, y.e))

FSub(x, y) == FAdd(x, FNeg(y))

FMul(x, y) ==
    IF IsZero(x) \/ IsZero(y) THEN FZero
    ELSE FRound((x.s + y.s) % 2, BMul(x.m, y.m), x.e + y.e, FALSE)

DivGuard == MantBits + 3

FDivPack(s, qr, e) == FRound(s, qr[1], e, qr[2] # <<>>)

\* x / y for y # 0 (the caller raises ZeroDivisionError for y = 0)
FDiv(x, y) ==
    IF IsZero(x) THEN FZero
    ELSE FDivPack((x.s + y.s) % 2, BDivBits(x.m, y.m, <<>>, DivGuard),
                  x.e - y.e - DivGuard)

\* -1, 0, 1 as x < y, x = y, x > y
FMagCmp(x, y) ==
    IF x.e < y.e THEN -1
    ELSE IF x.e > y.e THEN 1
    ELSE BCmp(x.m, y.m)

FCmp(x, y) ==
    IF IsZero(x) /\ IsZero(y) THEN 0
    ELSE IF IsZero(x) THEN (IF y.s = 1 THEN 1 ELSE -1)
    ELSE IF IsZero(y) THEN (IF x.s = 1 THEN -1 ELSE 1)
    ELSE IF x.s # y.s THEN (IF x.s = 1 THEN -1 ELSE 1)
    ELSE IF x.s = 0 THEN FMagCmp(x, y)
    ELSE FMagCmp(y, x)

FLt(x, y) == FCmp(x, y) < 0
FLe(x, y) == FCmp(x, y) <= 0

\* a decimal literal n/d of the source, correctly rounded
Lit(n, d) == FDiv(FromInt(n), FromInt(d))

(***************************************************************************)
(* The calculation engine, src/utils.py.  A call returns a record whose    *)
(* field err is "none" on a normal return and the name of the Python       *)
(* exception otherwise.                                                    *)
(***************************************************************************)
Raise(exc) == [err |-> exc]

BasicRate == 300
MediumRate == 380
LuxuryRate == 780

base_costs_aed == [basic |-> BasicRate, medium |-> MediumRate, luxury |-> LuxuryRate]

calculate_total_cost(square_feet, quality_level) ==
    IF quality_level \notin DOMAIN base_costs_aed THEN Raise("KeyError")
    ELSE [err |-> "none", value |-> square_feet * base_costs_aed[quality_level]]

TitleDeedFee == 430
ConveyanceFee == 7350

DubaiFeesOf(dld_fee, broker_fee) ==
    [err |-> "none", dld_fee |-> dld_fee, broker_fee |-> broker_fee,
     title_deed_fee |-> TitleDeedFee, conveyance_fee |-> ConveyanceFee,
     total_fees |-> FAdd(FAdd(FAdd(dld_fee, broker_fee), FromInt(TitleDeedFee)),
                         FromInt(ConveyanceFee))]

calculate_dubai_fees(property_value) ==
    DubaiFeesOf(FMul(property_value, Lit(4, 100)), FMul(property_value, Lit(2, 100)))

\* mutant: the moderate scenario given the conservative markup
ValuesOfSameMarkup(base_value, market_factor) ==
    [err |-> "none",
     conservative |-> FMul(base_value, FAdd(Lit(115, 100), market_factor)),
     moderate |-> FMul(base_value, FAdd(Lit(115, 100), market_factor)),
     optimistic |-> FMul(base_value, FAdd(Lit(135, 100), market_factor))]

ValuesOf(base_value, market_factor) ==
    [err |-> "none",
     conservative |-> FMul(base_value, FAdd(Lit(115, 100), market_factor)),
     moderate |-> FMul(base_value, FAdd(Lit(125, 100), market_factor)),
     optimistic |-> FMul(base_value, FAdd(Lit(135, 100), market_factor))]

\* mutant: the base value without the initial value
BaseValueIncreaseOnly(initial_value, total_cost, market_factor) ==
    FMul(FromInt(total_cost), FAdd(FromInt(1), market_factor))

\* base_value = initial_value + value_increase, lines 31-32
BaseValue(initial_value, total_cost, market_factor) ==
    FAdd(FromInt(initial_value),
         FMul(FromInt(total_cost), FAdd(FromInt(1), market_factor)))

estimate_property_values(initial_value, total_cost, market_factor) ==
    ValuesOf(BaseValue(initial_value, total_cost, market_factor), market_factor)

InvestorShare == Lit(88, 100)
CompanyShare == Lit(12, 100)

\* annual_roi = (investor_profit / total_investment) * (12 / holding_period) * 100
AnnualRoi(investor_profit, total_investment, holding_period) ==
    FMul(FMul(FDiv(investor_profit, FromInt(total_investment)),
              FDiv(FromInt(12), FromInt(holding_period))),
         FromInt(100))

RoiOf(profit, investor_profit, total_investment, holding_period) ==
    IF total_investment = 0 \/ holding_period = 0 THEN Raise("ZeroDivisionError")
    ELSE [err |-> "none", total_profit |-> profit,
          investor_profit |-> investor_profit,
          company_profit |-> FMul(profit, CompanyShare),
          annual_roi |-> AnnualRoi(investor_profit, total_investment, holding_period)]

\* mutant: the investor given the company's share
RoiOfProfitSwapped(profit, total_investment, holding_period) ==
    RoiOf(profit, FMul(profit, CompanyShare), total_investment, holding_period)

RoiOfProfit(profit, total_investment, holding_period) ==
    RoiOf(profit, FMul(profit, InvestorShare), total_investment, holding_period)

calculate_roi_with_split(initial_investment, final_value, total_cost, holding_period) ==
    RoiOfProfit(FSub(final_value, FromInt(initial_investment + total_cost)),
                initial_investment + total_cost, holding_period)

monthly_return_rate == Lit(5, 1000)

\* mutant: the annual return left as a fraction, not a percentage
ShareOfFraction(total_investment, monthly_returns, share_amount, holding_period) ==
    [err |-> "none",
     share_percentage |->
         FMul(FDiv(FromInt(share_amount), FromInt(total_investment)), FromInt(100)),
     monthly_returns |-> monthly_returns,
     total_returns |-> FMul(monthly_returns, FromInt(holding_period)),
     effective_annual_return |-> FMul(monthly_return_rate, FromInt(12))]

ShareOf(total_investment, monthly_returns, share_amount, holding_period) ==
    [err |-> "none",
     share_percentage |->
         FMul(FDiv(FromInt(share_amount), FromInt(total_investment)), FromInt(100)),
     monthly_returns |-> monthly_returns,
     total_returns |-> FMul(monthly_returns, FromInt(holding_period)),
     effective_annual_return |->
         FMul(FMul(monthly_return_rate, FromInt(12)), FromInt(100))]

calculate_share_investment(total_investment, share_amount, holding_period) ==
    IF total_investment = 0 THEN Raise("ZeroDivisionError")
    ELSE ShareOf(total_investment, FMul(FromInt(share_amount), monthly_return_rate),
                 share_amount, holding_period)

\* numpy.linspace(start, stop, num): y = arange(0, num) * step + start with
\* delta = stop - start and step = delta / div, div = num - 1; for div = 0 the
\* step is undefined and y = arange(0, num) * delta + start; a step that
\* rounds to zero is applied as (y / div) * delta; and y[-1] = stop for num > 1
LinPoint(i, start, delta, div, step) ==
    IF div = 0 THEN FAdd(FMul(FromInt(i), delta), start)
    ELSE IF IsZero(step)
    THEN FAdd(FMul(FDiv(FromInt(i), FromInt(div)), delta), start)
    ELSE FAdd(FMul(FromInt(i), step), start)

LinFill(start, stop, num, delta, step) ==
    [i \in 1..num |->
        IF num > 1 /\ i = num THEN stop
        ELSE LinPoint(i - 1, start, delta, num - 1, step)]

LinStep(delta, div) == IF div = 0 THEN FZero ELSE FDiv(delta, FromInt(div))

\* mutant: linspace with endpoint=False
LinDeltaNoEndpoint(start, stop, num, delta) ==
    [i \in 1..num |-> LinPoint(i - 1, start, delta, num, LinStep(delta, num))]

LinDelta(start, stop, num, delta) ==
    LinFill(start, stop, num, delta, LinStep(delta, num - 1))

Linspace(start, stop, num) == LinDelta(start, stop, num, FSub(stop, start))

generate_monthly_projection(initial_value, final_value, months) ==
    IF months < 0 THEN Raise("ValueError")
    ELSE [err |-> "none", value |-> Linspace(FromInt(initial_value), final_value, months)]

(***************************************************************************)
(* Bounds of the model and the inputs it draws.                            *)
(***************************************************************************)
MaxMonths == 4
MaxFactorSteps == 1

\* widget limits of the sidebar, src/main.py
MinPropertyValue == 200000
MaxPropertyValue == 50000000
DefaultPropertyValue == 1000000
MinSquareFeet == 500
MaxSquareFeet == 10000
DefaultSquareFeet == 1500
MaxFactorPercent == 100
FactorStep == 5
MinHoldingPeriod == 1
MaxHoldingPeriod == 60
DefaultHoldingPeriod == 12
MinShareAmount == 100000
ShareStepAmount == 50000

Tiers == {"basic", "medium", "luxury"}
Scenarios == {"conservative", "moderate", "optimistic"}

\* market appreciation in percent: the slider's first steps and its maximum
FactorPercents == {FactorStep * k : k \in 0..MaxFactorSteps} \cup {MaxFactorPercent}

\* the slider value divided by 100, src/main.py line 74
FactorOf(percent) == FDiv(FromInt(percent), FromInt(100))

(***************************************************************************)
(* State.  call and ret hold a direct call of an engine function and what  *)
(* it returned.  The other variables are the script's, src/main.py, and    *)
(* keep its names; pc is the script's position.                            *)
(***************************************************************************)
VARIABLES call, ret,
          pc, initial_investment, square_feet, quality_level, market_factor,
          holding_period, total_cost, property_values, selected_scenario,
          dubai_fees, roi_data, total_investment, share_amount, share_data,
          monthly_values

shellVars == <<pc, initial_investment, square_feet, quality_level, market_factor,
               holding_period, total_cost, property_values, selected_scenario,
               dubai_fees, roi_data, total_investment, share_amount, share_data,
               monthly_values>>
vars == <<call, ret, pc, initial_investment, square_feet, quality_level,
          market_factor, holding_period, total_cost, property_values,
          selected_scenario, dubai_fees, roi_data, total_investment,
          share_amount, share_data, monthly_values>>

NoCall == [fn |-> "none"]
Unset == [err |-> "unset"]

ShellStart ==
    /\ pc = "sidebar"
    /\ initial_investment = 0
    /\ square_feet = 0
    /\ quality_level = ""
    /\ market_factor = FZero
    /\ holding_period = 0
    /\ total_cost = 0
    /\ property_values = Unset
    /\ selected_scenario = ""
    /\ dubai_fees = Unset
    /\ roi_data = Unset
    /\ total_investment = 0
    /\ share_amount = 0
    /\ share_data = Unset
    /\ monthly_values = Unset

Init ==
    /\ call = NoCall
    /\ ret = Unset
    /\ ShellStart

(***************************************************************************)
(* Direct calls of the engine: the functions are pure, so a call is one    *)
(* step from the idle state and the return to idle is another.             *)
(***************************************************************************)
SizeInputs == {-100, 0, MinSquareFeet, DefaultSquareFeet, MaxSquareFeet}
TierInputs == Tiers \cup {"premium"}
ValueInputs == {-2000000, -570000, 0, MinPropertyValue, DefaultPropertyValue}
CostInputs == {0, 468000, 570000}
HoldingInputs == {-12, 0, MinHoldingPeriod, DefaultHoldingPeriod, MaxHoldingPeriod}
FinalInputs ==
    {FromInt(0), FromInt(100000), FromInt(1962500),
     estimate_property_values(MinPropertyValue, 468000, FactorOf(70)).optimistic}
ShareTotals == {0, 350000, 1570000}
ShareAmounts == {0, MinShareAmount, 350000, 1570000}
StartInputs == {0, 100, DefaultPropertyValue}
StopInputs == {FromInt(1), FromInt(100), FromInt(200), FromInt(1962500)}

Idle == call = NoCall /\ pc = "sidebar"

CallTotalCost ==
    /\ Idle
    /\ \E sf \in SizeInputs, q \in TierInputs :
          /\ call' = [fn |-> "calculate_total_cost",
                      square_feet |-> sf, quality_level |-> q]
          /\ ret' = calculate_total_cost(sf, q)
    /\ UNCHANGED shellVars

CallDubaiFees ==
    /\ Idle
    /\ \E v \in FinalInputs :
          /\ call' = [fn |-> "calculate_dubai_fees", property_value |-> v]
          /\ ret' = calculate_dubai_fees(v)
    /\ UNCHANGED shellVars

CallEstimate ==
    /\ Idle
    /\ \E iv \in ValueInputs, tc \in CostInputs, p \in FactorPercents :
          /\ call' = [fn |-> "estimate_property_values", initial_value |-> iv,
                      total_cost |-> tc, market_factor |-> FactorOf(p)]
          /\ ret' = estimate_property_values(iv, tc, FactorOf(p))
    /\ UNCHANGED shellVars

CallRoi ==
    /\ Idle
    /\ \E ii \in {0, MinPropertyValue, DefaultPropertyValue}, fv \in FinalInputs,
          tc \in CostInputs, hp \in HoldingInputs :
          /\ call' = [fn |-> "calculate_roi_with_split", initial_investment |-> ii,
                      final_value |-> fv, total_cost |-> tc, holding_period |-> hp]
          /\ ret' = calculate_roi_with_split(ii, fv, tc, hp)
    /\ UNCHANGED shellVars

CallShare ==
    /\ Idle
    /\ \E ti \in ShareTotals, sa \in ShareAmounts, hp \in HoldingInputs :
          /\ call' = [fn |-> "calculate_share_investment", total_investment |-> ti,
                      share_amount |-> sa, holding_period |-> hp]
          /\ ret' = calculate_share_investment(ti, sa, hp)
    /\ UNCHANGED shellVars

CallProjection ==
    /\ Idle
    /\ \E iv \in StartInputs, fv \in StopInputs, n \in -1..MaxMonths :
          /\ call' = [fn |-> "generate_monthly_projection", initial_value |-> iv,
                      final_value |-> fv, months |-> n]
          /\ ret' = generate_monthly_projection(iv, fv, n)
    /\ UNCHANGED shellVars

Return ==
    /\ call # NoCall
    /\ call' = NoCall
    /\ ret' = Unset
    /\ UNCHANGED shellVars

Next ==
    \/ CallTotalCost
    \/ CallDubaiFees
    \/ CallEstimate
    \/ CallRoi
    \/ CallShare
    \/ CallProjection
    \/ Return

Spec == Init /\ [][Next]_vars

(***************************************************************************)
(* The script, src/main.py.  Streamlit runs it from top to bottom; every   *)
(* widget returns a value within its limits; an exception ends the run     *)
(* (pc = "error"); a change of a widget runs the script again.             *)
(***************************************************************************)
PropertyValueChoices == {MinPropertyValue, DefaultPropertyValue, MaxPropertyValue}
SizeChoices == {MinSquareFeet, DefaultSquareFeet, MaxSquareFeet}
\* mutant: a holding-period slider that starts at 0
HoldingChoicesFromZero == {0, DefaultHoldingPeriod, MaxHoldingPeriod}

HoldingChoices == {MinHoldingPeriod, DefaultHoldingPeriod, MaxHoldingPeriod}

\* the share input's values: its minimum, one step above it, and its
\* maximum, which is the default
ShareChoices(max_value) ==
    {MinShareAmount, MinShareAmount + ShareStepAmount, max_value}

Running == call = NoCall

Sidebar ==
    /\ Running
    /\ pc = "sidebar"
    /\ initial_investment' \in PropertyValueChoices
    /\ square_feet' \in SizeChoices
    /\ quality_level' \in Tiers
    /\ \E p \in FactorPercents : market_factor' = FactorOf(p)
    /\ holding_period' \in HoldingChoices
    /\ pc' = "cost"
    /\ UNCHANGED <<call, ret, total_cost, property_values, selected_scenario,
                   dubai_fees, roi_data, total_investment, share_amount,
                   share_data, monthly_values>>

\* lines 89-98: the cost, then the rate per square foot total_cost/square_feet
CostStep(r) ==
    /\ IF r.err # "none" \/ square_feet = 0
       THEN pc' = "error" /\ UNCHANGED total_cost
       ELSE pc' = "estimate" /\ total_cost' = r.value
    /\ UNCHANGED <<call, ret, initial_investment, square_feet, quality_level,
                   market_factor, holding_period, property_values,
                   selected_scenario, dubai_fees, roi_data, total_investment,
                   share_amount, share_data, monthly_values>>

Cost ==
    /\ Running
    /\ pc = "cost"
    /\ CostStep(calculate_total_cost(square_feet, quality_level))

Estimate ==
    /\ Running
    /\ pc = "estimate"
    /\ property_values' =
           estimate_property_values(initial_investment, total_cost, market_factor)
    /\ pc' = "scenario"
    /\ UNCHANGED <<call, ret, initial_investment, square_feet, quality_level,
                   market_factor, holding_period, total_cost, selected_scenario,
                   dubai_fees, roi_data, total_investment, share_amount,
                   share_data, monthly_values>>

Scenario ==
    /\ Running
    /\ pc = "scenario"
    /\ selected_scenario' \in Scenarios
    /\ pc' = "fees"
    /\ UNCHANGED <<call, ret, initial_investment, square_feet, quality_level,
                   market_factor, holding_period, total_cost, property_values,
                   dubai_fees, roi_data, total_investment, share_amount,
                   share_data, monthly_values>>

Fees ==
    /\ Running
    /\ pc = "fees"
    /\ dubai_fees' = calculate_dubai_fees(property_values[selected_scenario])
    /\ pc' = "roi"
    /\ UNCHANGED <<call, ret, initial_investment, square_feet, quality_level,
                   market_factor, holding_period, total_cost, property_values,
                   selected_scenario, roi_data, total_investment, share_amount,
                   share_data, monthly_values>>

RoiStep(r) ==
    /\ roi_data' = r
    /\ pc' = IF r.err # "none" THEN "error" ELSE "share_input"
    /\ UNCHANGED <<call, ret, initial_investment, square_feet, quality_level,
                   market_factor, holding_period, total_cost, property_values,
                   selected_scenario, dubai_fees, total_investment, share_amount,
                   share_data, monthly_values>>

Roi ==
    /\ Running
    /\ pc = "roi"
    /\ RoiStep(calculate_roi_with_split(initial_investment,
                                        property_values[selected_scenario],
                                        total_cost, holding_period))

\* lines 206-214: a number input whose minimum exceeds its maximum raises
ShareInput ==
    /\ Running
    /\ pc = "share_input"
    /\ total_investment' = initial_investment + total_cost
    /\ IF MinShareAmount > initial_investment + total_cost
       THEN pc' = "error" /\ UNCHANGED share_amount
       ELSE /\ share_amount' \in ShareChoices(initial_investment + total_cost)
            /\ pc' = "share"
    /\ UNCHANGED <<call, ret, initial_investment, square_feet, quality_level,
                   market_factor, holding_period, total_cost, property_values,
                   selected_scenario, dubai_fees, roi_data, share_data,
                   monthly_values>>

ShareStep(r) ==
    /\ share_data' = r
    /\ pc' = IF r.err # "none" THEN "error" ELSE "projection"
    /\ UNCHANGED <<call, ret, initial_investment, square_feet, quality_level,
                   market_factor, holding_period, total_cost, property_values,
                   selected_scenario, dubai_fees, roi_data, total_investment,
                   share_amount, monthly_values>>

Share ==
    /\ Running
    /\ pc = "share"
    /\ ShareStep(calculate_share_investment(total_investment, share_amount,
                                            holding_period))

ProjectionStep(r) ==
    /\ monthly_values' = r
    /\ pc' = IF r.err # "none" THEN "error" ELSE "done"
    /\ UNCHANGED <<call, ret, initial_investment, square_feet, quality_level,
                   market_factor, holding_period, total_cost, property_values,
                   selected_scenario, dubai_fees, roi_data, total_investment,
                   share_amount, share_data>>

Projection ==
    /\ Running
    /\ pc = "projection"
    /\ ProjectionStep(generate_monthly_projection(initial_investment,
                                                  property_values[selected_scenario],
                                                  holding_period))

Rerun ==
    /\ Running
    /\ pc \in {"done", "error"}
    /\ pc' = "sidebar"
    /\ initial_investment' = 0
    /\ square_feet' = 0
    /\ quality_level' = ""
    /\ market_factor' = FZero
    /\ holding_period' = 0
    /\ total_cost' = 0
    /\ property_values' = Unset
    /\ selected_scenario' = ""
    /\ dubai_fees' = Unset
    /\ roi_data' = Unset
    /\ total_investment' = 0
    /\ share_amount' = 0
    /\ share_data' = Unset
    /\ monthly_values' = Unset
    /\ UNCHANGED <<call, ret>>

ShellNext ==
    \/ Sidebar
    \/ Cost
    \/ Estimate
    \/ Scenario
    \/ Fees
    \/ Roi
    \/ ShareInput
    \/ Share
    \/ Projection
    \/ Rerun

ShellSpec == Init /\ [][ShellNext]_vars

(***************************************************************************)
(* Properties of the engine, checked under Spec.                           *)
(***************************************************************************)
FAbs(x) == IF IsZero(x) THEN x ELSE [x EXCEPT !.s = 0]

\* the float 2^k
FPow2(k) == [s |-> 0, m |-> BShl(<<1>>, MantBits - 1), e |-> k - (MantBits - 1)]

Returned(fn) == call.fn = fn /\ ret.err = "none"

\* C1: calculate_roi_with_split fails, returning no result mapping, for every
\* call with holding_period <= 0 or initial_investment + total_cost = 0; a
\* negative holding period never yields an annual_roi.
C1_RoiRejectsInvalid ==
    (/\ call.fn = "calculate_roi_with_split"
     /\ \/ call.holding_period <= 0
        \/ call.initial_investment + call.total_cost = 0)
    => ret.err # "none"

StrictlyOrdered(v) == FLt(v.conservative, v.moderate) /\ FLt(v.moderate, v.optimistic)

EstimateInDomain ==
    /\ call.fn = "estimate_property_values"
    /\ call.total_cost >= 0
    /\ FLe(FZero, call.market_factor)
    /\ FLe(call.market_factor, FromInt(1))

CallBaseValue == BaseValue(call.initial_value, call.total_cost, call.market_factor)

\* C2 as stated: for every initial_value, total_cost >= 0 and market_factor in
\* [0, 1], estimate_property_values returns optimistic > moderate >
\* conservative, also when the base value is zero or negative.
C2_OrderedForAll ==
    EstimateInDomain => ret.err = "none" /\ StrictlyOrdered(ret)

\* C2 amended: the strict order optimistic > moderate > conservative holds
\* exactly when the base value initial_value + total_cost * (1 + market_factor)
\* is positive; for a base value of zero the three are equal and for a negative
\* one the order is reversed.
C2_OrderedForPositiveBase ==
    EstimateInDomain =>
        /\ ret.err = "none"
        /\ FLt(FZero, CallBaseValue) => StrictlyOrdered(ret)
        /\ IsZero(CallBaseValue) =>
               IsZero(ret.conservative) /\ IsZero(ret.moderate) /\ IsZero(ret.optimistic)
        /\ FLt(CallBaseValue, FZero) =>
               FLt(ret.optimistic, ret.moderate) /\ FLt(ret.moderate, ret.conservative)

C2_Witness ==
    /\ EstimateInDomain
    /\ call.initial_value < 0
    /\ FLt(FZero, CallBaseValue)
    /\ StrictlyOrdered(ret)

\* C3: generate_monthly_projection fails for every months < 1: it returns no
\* sequence for months = 0 nor for a negative months.
C3_ProjectionRejectsNoMonths ==
    (call.fn = "generate_monthly_projection" /\ call.months < 1)
    => ret.err # "none"

\* C4: calculate_total_cost fails whenever quality_level is not one of basic,
\* medium, luxury, or square_feet <= 0; it never returns a zero or negative
\* cost.
C4_CostRejectsInvalid ==
    (/\ call.fn = "calculate_total_cost"
     /\ \/ call.quality_level \notin Tiers
        \/ call.square_feet <= 0)
    => ret.err # "none"

\* C5: every result of calculate_roi_with_split has total_profit equal to
\* final_value - (initial_investment + total_cost), not clamped, and
\* investor_profit + company_profit = total_profit exactly (stated here for
\* the calls with a valid holding period only, which are among "all inputs").
C5_SplitSumsToProfit ==
    (Returned("calculate_roi_with_split") /\ call.holding_period >= 1) =>
        /\ ret.total_profit =
               FSub(call.final_value,
                    FromInt(call.initial_investment + call.total_cost))
        /\ FAdd(ret.investor_profit, ret.company_profit) = ret.total_profit

ProjectionCall == call.fn = "generate_monthly_projection" /\ call.months >= 1

CallStep ==
    FDiv(FSub(call.final_value, FromInt(call.initial_value)),
         FromInt(call.months - 1))

ProjectionEnds ==
    /\ ret.err = "none"
    /\ Len(ret.value) = call.months
    /\ ret.value[1] = FromInt(call.initial_value)
    /\ call.months >= 2 => ret.value[call.months] = call.final_value

\* C6 as stated: for months >= 1 the projection has exactly months points, the
\* first is initial_value, for months >= 2 the last is final_value and
\* consecutive points differ by the constant
\* (final_value - initial_value) / (months - 1).
C6_ConstantDifferences ==
    ProjectionCall =>
        /\ ProjectionEnds
        /\ \A i \in 1..(call.months - 1) :
               FSub(ret.value[i + 1], ret.value[i]) = CallStep

\* the rounding allowed to a difference of two points: 2^-48 of the size of
\* the end points
StepTolerance ==
    FMul(FPow2(-48), FAdd(FAbs(FromInt(call.initial_value)), FAbs(call.final_value)))

\* C6 amended: months points, the first initial_value, for months >= 2 the last
\* final_value; consecutive points differ by
\* (final_value - initial_value) / (months - 1) up to floating-point rounding
\* (within 2^-48 of the size of the end points), and exactly so in
\* (100, 200, 3), which gives [100, 150, 200].
C6_DifferencesUpToRounding ==
    ProjectionCall =>
        /\ ProjectionEnds
        /\ \A i \in 1..(call.months - 1) :
               FLe(FAbs(FSub(FSub(ret.value[i + 1], ret.value[i]), CallStep)),
                   StepTolerance)
        /\ (call.initial_value = 100 /\ call.final_value = FromInt(200)
              /\ call.months = 3)
           => ret.value = <<FromInt(100), FromInt(150), FromInt(200)>>

C6_Witness ==
    /\ ProjectionCall
    /\ call.months >= 3
    /\ ProjectionEnds
    /\ \E i \in 1..(call.months - 1) :
           FSub(ret.value[i + 1], ret.value[i]) # CallStep

ShareInDomain ==
    /\ call.fn = "calculate_share_investment"
    /\ call.total_investment > 0
    /\ 0 <= call.share_amount
    /\ call.share_amount <= call.total_investment
    /\ call.holding_period >= 1

\* C8: for total_investment > 0, share_amount in [0, total_investment] and
\* holding_period >= 1, calculate_share_investment returns
\* effective_annual_return = 6.0, total_returns = share_amount * 0.005 *
\* holding_period and share_percentage = share_amount / total_investment * 100,
\* which lies in [0, 100].
C8_ShareReturns ==
    ShareInDomain =>
        /\ ret.err = "none"
        /\ ret.effective_annual_return = FromInt(6)
        /\ ret.total_returns =
               FMul(FMul(FromInt(call.share_amount), Lit(5, 1000)),
                    FromInt(call.holding_period))
        /\ ret.share_percentage =
               FMul(FDiv(FromInt(call.share_amount), FromInt(call.total_investment)),
                    FromInt(100))
        /\ FLe(FZero, ret.share_percentage)
        /\ FLe(ret.share_percentage, FromInt(100))

C8_Witness ==
    /\ ShareInDomain
    /\ call.share_amount > 0
    /\ call.share_amount < call.total_investment
    /\ call.holding_period > 12
    /\ ret.effective_annual_return = FromInt(6)

(***************************************************************************)
(* Properties of the script, checked under ShellSpec.                      *)
(***************************************************************************)
AfterRoi == pc \in {"share_input", "share", "projection", "done"}

SelectedValue == property_values[selected_scenario]

EndToEndInputs ==
    /\ initial_investment = 1000000
    /\ square_feet = 1500
    /\ quality_level = "medium"
    /\ market_factor = FZero
    /\ holding_period = 12
    /\ selected_scenario = "moderate"

\* C7: on square_feet = 1500, medium, initial value 1,000,000, market factor
\* 0, holding period 12 and the moderate scenario the script computes
\* total_cost = 570,000, moderate = 1,962,500, total_profit = 392,500,
\* investor_profit = 345,400 and annual_roi = 345,400 / 1,570,000 * 100, which
\* is 22.0.
C7_EndToEnd ==
    (AfterRoi /\ EndToEndInputs) =>
        /\ total_cost = 570000
        /\ property_values.moderate = FromInt(1962500)
        /\ roi_data.err = "none"
        /\ roi_data.total_profit = FromInt(392500)
        /\ roi_data.investor_profit = FromInt(345400)
        /\ roi_data.annual_roi =
               FMul(FDiv(FromInt(345400), FromInt(1570000)), FromInt(100))
        /\ roi_data.annual_roi = FromInt(22)

C7_Witness == pc = "done" /\ EndToEndInputs

\* C9: for the inputs the widgets permit, every engine call of the script is
\* made with its preconditions satisfied and none raises: a recognised tier
\* and a positive size for the cost, a non-negative selected value for the
\* fees, total investment > 0 and holding period >= 1 for the ROI and the
\* projection, and 0 <= share_amount <= total_investment, the share input's
\* minimum never exceeding its maximum.
C9_ShellPreconditions ==
    /\ pc # "error"
    /\ pc = "cost" => quality_level \in Tiers /\ square_feet > 0
    /\ pc = "fees" => FLe(FZero, SelectedValue)
    /\ pc = "roi" =>
           /\ initial_investment + total_cost > 0
           /\ holding_period >= 1
           /\ FLe(FZero, SelectedValue)
    /\ pc = "share_input" => MinShareAmount <= initial_investment + total_cost
    /\ pc = "share" =>
           /\ total_investment > 0
           /\ 0 <= share_amount
           /\ share_amount <= total_investment
           /\ holding_period >= 1
    /\ pc = "projection" => holding_period >= 1

C9_Witness ==
    /\ pc = "done"
    /\ initial_investment = MinPropertyValue
    /\ square_feet = MinSquareFeet
    /\ quality_level = "basic"
    /\ holding_period = MinHoldingPeriod
    /\ share_amount = MinShareAmount
    /\ share_data.err = "none"
    /\ Len(monthly_values.value) = 1

\* C10: for the inputs the widgets permit and every scenario, the ROI result
\* of the script has total_profit > 0, investor_profit > 0 and annual_roi > 0:
\* the selected value is at least 1.15 times initial_investment + total_cost.
C10_NeverALoss ==
    AfterRoi =>
        /\ roi_data.err = "none"
        /\ FLt(FZero, roi_data.total_profit)
        /\ FLt(FZero, roi_data.investor_profit)
        /\ FLt(FZero, roi_data.annual_roi)
        /\ FLe(FMul(Lit(115, 100), FromInt(initial_investment + total_cost)),
               SelectedValue)

C10_Witness ==
    /\ pc = "share_input"
    /\ selected_scenario = "conservative"
    /\ market_factor = FZero
    /\ holding_period = MaxHoldingPeriod
    /\ initial_investment = MaxPropertyValue
    /\ FLt(FZero, roi_data.annual_roi)

=============================================================================
